---- MODULE Spec2Model ----
(***************************************************************************)
(* A model of D3D9RenderWindow (CamelotD3D9Renderer/Source/                *)
(* CmD3D9RenderWindow.cpp): the surface's geometry and display-mode state, *)
(* its device binding, and the operations that change them.                *)
(*                                                                         *)
(* Every operation is one action.  The collaborators (Win32 window system, *)
(* D3D9Device) appear as the answers they give, drawn from small sets, and *)
(* as the calls made to them, which each action records in last.calls.     *)
(***************************************************************************)
EXTENDS Integers, Sequences, FiniteSets, TLC

VARIABLES
    pc,                   \* "constructed", "initialized", "destroyed", "crashed"
    mHWnd,                \* native window handle, NoWindow (0) when none
    mIsExternal,          \* the handle was adopted, not created
    mDevice,              \* bound D3D9Device, NULL when none
    mDeviceValid,
    mIsFullScreen,
    mSwitchingFullscreen,
    mWidth, mHeight,
    mDesiredWidth, mDesiredHeight,
    mTop, mLeft,
    mStyle,               \* window style the surface last computed
    mColorDepth,          \* bits per pixel the surface was created with
    mVSync,               \* presentation waits for the vertical blank
    mVSyncInterval,       \* blanks per presentation asked for
    winStyle,             \* style the native window really has (GWL_STYLE)
    gesture,              \* the startMove or startResize waiting in SendMessage, or NoGesture
    gestures,             \* move and resize gestures started
    buttonUps,            \* left-button-up events simulated in the input system
    trip,                 \* history: how the window was created and what was done since
    last                  \* the recorded operation: name, thread, inputs, outcome, calls made

vars == <<pc, mHWnd, mIsExternal, mDevice, mDeviceValid, mIsFullScreen,
          mSwitchingFullscreen, mWidth, mHeight, mDesiredWidth, mDesiredHeight,
          mTop, mLeft, mStyle, mColorDepth, mVSync, mVSyncInterval, winStyle,
          gesture, gestures, buttonUps, trip, last>>

geometry == <<mWidth, mHeight, mDesiredWidth, mDesiredHeight, mTop, mLeft>>
modeState == <<mIsFullScreen, mSwitchingFullscreen, mStyle>>
binding == <<mDevice, mDeviceValid>>
handle == <<mHWnd, mIsExternal>>
input == <<gesture, gestures, buttonUps>>
config == <<mColorDepth, mVSync, mVSyncInterval>>
surface == <<geometry, modeState, binding, handle, config, winStyle>>

----------------------------------------------------------------------------
(* Bounds of the model. *)

\* Client sizes requested by callers and reported by the window system: 1..MaxDim.
MaxDim == 2
\* Window positions passed to move and reported by the window system: 0..MaxPos.
MaxPos == 1
\* Move and resize gestures started in one run.
MaxGestures == 2

Dims == 1..MaxDim
\* The client sizes: <<width, height>>, landscape.
Sizes == {sz \in Dims \X Dims : sz[2] <= sz[1]}
Positions == 0..MaxPos
\* The origins asked of move and reported by the window system: <<left, top>>, on
\* or right of the diagonal.
Origins == {at \in Positions \X Positions : at[2] <= at[1]}

NULL == "NULL"
Devices == {"dev1", "dev2"}
CoreThread == "core"
Threads == {CoreThread, "other"}
HWND == "hwnd"
NoWindow == "0"

----------------------------------------------------------------------------
(* Window styles: sets of WS_* flags. *)

BaseStyle == {"WS_VISIBLE", "WS_CLIPCHILDREN"}
WS_POPUP == {"WS_POPUP"}
WS_OVERLAPPEDWINDOW == {"WS_CAPTION", "WS_SYSMENU", "WS_THICKFRAME",
                        "WS_MINIMIZEBOX", "WS_MAXIMIZEBOX"}
WS_FIXED == {"WS_BORDER", "WS_CAPTION", "WS_SYSMENU", "WS_MINIMIZEBOX"}

BorderStyle(border) ==
    IF border = "None" THEN WS_POPUP
    ELSE IF border = "Fixed" THEN WS_FIXED
    ELSE WS_OVERLAPPEDWINDOW

Borders == {"None", "Fixed", "Normal"}
Styles == {BaseStyle \cup BorderStyle(b) : b \in Borders}
\* The values an uninitialised style is read as.
Indeterminate == {{}, BaseStyle \cup WS_OVERLAPPEDWINDOW}

----------------------------------------------------------------------------
(* The window system's monitors. *)

Monitors == {"primary", "secondary"}

\* GetMonitorInfo: rcMonitor is the full rectangle, rcWork the work area.
\* The primary monitor has a taskbar at the bottom and room for every decorated
\* window; the secondary one, to its right, has the taskbar at the top and is too
\* small for the largest.
GetMonitorInfo(hMonitor) ==
    IF hMonitor = "primary"
    THEN [rcMonitor |-> [left |-> 0, top |-> 0, right |-> 5, bottom |-> 6],
          rcWork    |-> [left |-> 0, top |-> 0, right |-> 5, bottom |-> 5]]
    ELSE [rcMonitor |-> [left |-> 5, top |-> 1, right |-> 8, bottom |-> 5],
          rcWork    |-> [left |-> 5, top |-> 2, right |-> 8, bottom |-> 5]]

\* AdjustWindowRect(&rc, style, false) on (0, 0, w, h): the frame the style adds.
FrameWidth(style) ==
    IF "WS_THICKFRAME" \in style THEN 2
    ELSE IF "WS_CAPTION" \in style \/ "WS_BORDER" \in style THEN 1
    ELSE 0

FrameHeight(style) ==
    FrameWidth(style) + (IF "WS_CAPTION" \in style THEN 1 ELSE 0)

Min(a, b) == IF a < b THEN a ELSE b

\* An outer size that is not clamped.
_adjustWindow_unclamped(clientWidth, clientHeight, style, hMonitor) ==
    [winWidth  |-> clientWidth + FrameWidth(style),
     winHeight |-> clientHeight + FrameHeight(style)]

\* _adjustWindow: the outer size for a client size, clamped to the work area of
\* the monitor the window is on.
_adjustWindow(clientWidth, clientHeight, style, hMonitor) ==
    LET winWidth  == clientWidth + FrameWidth(style)
        winHeight == clientHeight + FrameHeight(style)
        rcWork    == GetMonitorInfo(hMonitor).rcWork
        maxW      == rcWork.right - rcWork.left
        maxH      == rcWork.bottom - rcWork.top
    IN  [winWidth  |-> IF winWidth > maxW THEN maxW ELSE winWidth,
         winHeight |-> IF winHeight > maxH THEN maxH ELSE winHeight]

----------------------------------------------------------------------------
(* Calls made to the collaborators, as recorded in last.calls. *)

SetWindowPos(after, x, y, cx, cy, flags) ==
    [f |-> "SetWindowPos", after |-> after, x |-> x, y |-> y, cx |-> cx, cy |-> cy,
     flags |-> flags]

SetWindowLong(style) == [f |-> "SetWindowLong", style |-> style]

DeviceCall(name, device) == [f |-> name, device |-> device]

\* The calls to f the recorded operation made.
Called(f) == {i \in 1..Len(last.calls) : last.calls[i].f = f}

----------------------------------------------------------------------------
(* The record of one operation. *)

\* The surface as an operation finds it.
Snapshot ==
    [pc |-> pc, mHWnd |-> mHWnd, mIsExternal |-> mIsExternal,
     mDevice |-> mDevice, mDeviceValid |-> mDeviceValid,
     mIsFullScreen |-> mIsFullScreen, mSwitchingFullscreen |-> mSwitchingFullscreen,
     mWidth |-> mWidth, mHeight |-> mHeight,
     mDesiredWidth |-> mDesiredWidth, mDesiredHeight |-> mDesiredHeight,
     mTop |-> mTop, mLeft |-> mLeft, mStyle |-> mStyle, mColorDepth |-> mColorDepth,
     mVSync |-> mVSync, mVSyncInterval |-> mVSyncInterval, winStyle |-> winStyle]

Op(name, thr, args, outcome, ret, calls) ==
    [op |-> name, thr |-> thr, args |-> args, outcome |-> outcome, ret |-> ret,
     calls |-> calls, pre |-> Snapshot]

\* No operation recorded.
Quiet == [op |-> "-", thr |-> "-", args |-> <<>>, outcome |-> "-", ret |-> "-",
          calls |-> <<>>, pre |-> <<>>]

\* What a step leaves in last: the operation, with the surface as it found it, or
\* nothing.  A run is a sequence of unrecorded operations ended by at most one
\* recorded operation: every operation is taken, recorded, from every state the
\* unrecorded ones reach.
Trace(name, thr, args, outcome, ret, calls) ==
    {Quiet, Op(name, thr, args, outcome, ret, calls)}

NoArgs == [none |-> TRUE]
\* The surface's history is not kept.
NoTrip == [style |-> {}, width |-> 0, height |-> 0, stage |-> "-", resized |-> FALSE]
\* No startMove or startResize is waiting in SendMessage.
NoGesture == [op |-> "-", thr |-> "-", wParam |-> "-"]
Void == "void"

\* THROW_IF_NOT_CORE_THREAD: the calling thread is not the core thread.
NotCoreThread(thr) == thr # CoreThread

\* The exception THROW_IF_NOT_CORE_THREAD raises: the operation ends before its
\* body.
Throw(name, thr) ==
    /\ last' \in Trace(name, thr, NoArgs, "thread_violation", Void, <<>>)
    /\ UNCHANGED <<pc, surface>>

\* A member call through mDevice.  With a device bound the call is made; through a
\* NULL mDevice it is undefined behaviour, and the build either crashes there or
\* returns having reached no device.
DeviceOutcomes == IF mDevice = NULL THEN {"crash", "ok"} ELSE {"ok"}
ThroughDevice(name) == IF mDevice = NULL THEN <<>> ELSE <<DeviceCall(name, mDevice)>>
PcAfter(outcome) == IF outcome = "crash" THEN "crashed" ELSE pc

\* The surface is initialized and not torn down, and the run has not ended.
Alive == pc = "initialized" /\ last = Quiet

\* After teardown the surface still takes the presentation calls queued on the
\* core thread before it, the window system's notifications, and a repeated
\* teardown.
Exists == pc \in {"initialized", "destroyed"} /\ last = Quiet

----------------------------------------------------------------------------
(* Construction. *)

Init ==
    /\ pc = "constructed"
    /\ mHWnd = NoWindow
    /\ mIsExternal = FALSE
    /\ mDevice = NULL
    /\ mDeviceValid = FALSE
    /\ mIsFullScreen = FALSE
    /\ mSwitchingFullscreen = FALSE
    /\ mWidth = 0 /\ mHeight = 0
    /\ mDesiredWidth = 0 /\ mDesiredHeight = 0
    /\ mTop = 0 /\ mLeft = 0
    /\ mStyle \in Indeterminate   \* not set by the constructor
    /\ mColorDepth = 0            \* assigned by initialize_internal before any read
    /\ mVSync = FALSE             \* likewise
    /\ mVSyncInterval = 0         \* likewise
    /\ winStyle = {}
    /\ gesture = NoGesture
    /\ gestures = 0
    /\ buttonUps = 0
    /\ trip = NoTrip
    /\ last = Quiet

----------------------------------------------------------------------------
(* initialize_internal *)

\* IDirect3D9::GetAdapterMonitor for adapters 0 .. GetAdapterCount() - 1.
AdapterMonitors == <<"primary", "secondary">>

InRect(x, y, rc) == rc.left <= x /\ x < rc.right /\ rc.top <= y /\ y < rc.bottom

\* MonitorFromPoint(pt, MONITOR_DEFAULTTOPRIMARY)
MonitorFromPoint(x, y) ==
    IF \E m \in Monitors : InRect(x, y, GetMonitorInfo(m).rcMonitor)
    THEN CHOOSE m \in Monitors : InRect(x, y, GetMonitorInfo(m).rcMonitor)
    ELSE "primary"

\* The loop over the adapters finds the one the index names.
AdapterFound(desc) ==
    desc.monitorIndex # -1 /\ desc.monitorIndex \in 0..(Len(AdapterMonitors) - 1)

\* A selection that takes the last adapter for an index past the end.
InitialMonitor_lastAdapter(desc) ==
    IF desc.monitorIndex # -1 /\ desc.monitorIndex >= 0
    THEN AdapterMonitors[Min(desc.monitorIndex + 1, Len(AdapterMonitors))]
    ELSE MonitorFromPoint(desc.left, desc.top)

\* The monitor the window is created on: the adapter's when the index names an
\* adapter, else the one at the anchor point.
InitialMonitor(desc) ==
    IF AdapterFound(desc)
    THEN AdapterMonitors[desc.monitorIndex + 1]
    ELSE MonitorFromPoint(desc.left, desc.top)

\* The calls that select the monitor and read its rectangles.
MonitorCalls(desc) ==
    (IF AdapterFound(desc)
     THEN <<[f |-> "GetAdapterMonitor", Adapter |-> desc.monitorIndex]>>
     ELSE <<[f |-> "MonitorFromPoint", x |-> desc.left, y |-> desc.top,
             dwFlags |-> "MONITOR_DEFAULTTOPRIMARY"]>>)
    \o <<[f |-> "GetMonitorInfo", hMonitor |-> InitialMonitor(desc)]>>

\* left/top before the fullscreen and clamping steps.
InitialPlacement(desc, monitorInfo) ==
    LET screenw == monitorInfo.rcWork.right - monitorInfo.rcWork.left
        screenh == monitorInfo.rcWork.bottom - monitorInfo.rcWork.top
        outerw  == IF desc.width < screenw THEN desc.width ELSE screenw
        outerh  == IF desc.height < screenh THEN desc.height ELSE screenh
        shiftL  == IF desc.monitorIndex # -1 THEN monitorInfo.rcWork.left ELSE 0
        shiftT  == IF desc.monitorIndex # -1 THEN monitorInfo.rcWork.top ELSE 0
    IN  IF desc.left = -1 \/ desc.top = -1
        THEN [left |-> IF desc.left = -1
                       THEN monitorInfo.rcWork.left + (screenw - outerw) \div 2
                       ELSE desc.left + shiftL,
              top  |-> IF desc.top = -1
                       THEN monitorInfo.rcWork.top + (screenh - outerh) \div 2
                       ELSE desc.top + shiftT]
        ELSE [left |-> desc.left + shiftL, top |-> desc.top + shiftT]

\* dwStyle of a windowed surface.
WindowedStyle(desc) ==
    BaseStyle
    \cup (IF desc.parent /\ ~desc.toolWindow THEN {"WS_CHILD"} ELSE {})
    \cup (IF ~desc.parent \/ desc.toolWindow THEN BorderStyle(desc.border) ELSE {})

\* The arguments of CreateWindowEx: style, position and outer size.
CreateArgs(desc, adjustMonitor) ==
    LET monitorInfo == GetMonitorInfo(InitialMonitor(desc))
        placed      == InitialPlacement(desc, monitorInfo)
    IN  IF desc.fullscreen
        THEN [styleEx |-> {"WS_EX_TOPMOST"}, style |-> BaseStyle \cup WS_POPUP,
              x |-> monitorInfo.rcMonitor.left, y |-> monitorInfo.rcMonitor.top,
              cx |-> desc.width, cy |-> desc.height]
        ELSE
          LET dwStyle == WindowedStyle(desc)
              adj     == _adjustWindow(desc.width, desc.height, dwStyle, adjustMonitor)
              left    == IF ~desc.outerDimensions /\ placed.left < monitorInfo.rcWork.left
                         THEN monitorInfo.rcWork.left ELSE placed.left
              top     == IF ~desc.outerDimensions /\ placed.top < monitorInfo.rcWork.top
                         THEN monitorInfo.rcWork.top ELSE placed.top
          IN  [styleEx |-> IF desc.parent /\ desc.toolWindow
                           THEN {"WS_EX_TOOLWINDOW"} ELSE {},
               style |-> dwStyle,
               x |-> left, y |-> top,
               cx |-> IF ~desc.outerDimensions
                         /\ adj.winWidth > monitorInfo.rcWork.right - left
                      THEN monitorInfo.rcWork.right - left ELSE adj.winWidth,
               cy |-> IF ~desc.outerDimensions
                         /\ adj.winHeight > monitorInfo.rcWork.bottom - top
                      THEN monitorInfo.rcWork.bottom - top ELSE adj.winHeight]

\* GetClientRect of a window with the given outer size and style.
ClientExtent(outer, frame) == IF outer > frame THEN outer - frame ELSE 0

\* desc: the RENDER_WINDOW_DESC.  adjustMonitor: the monitor MonitorFromWindow
\* answers inside _adjustWindow, while mHWnd is still 0.  host: for an adopted
\* window, its style and the rectangles the window system reports for it.
initialize_internal(desc, adjustMonitor, host) ==
    /\ pc = "constructed"
    /\ UNCHANGED input
    /\ last = Quiet
    /\ pc' = "initialized"
    /\ mHWnd' = HWND
    /\ mIsExternal' = desc.external
    /\ mIsFullScreen' = desc.fullscreen
    /\ mColorDepth' = desc.colorDepth
    /\ mVSync' = desc.vsync
    /\ mVSyncInterval' = desc.vsyncInterval
    /\ IF ~desc.external
       THEN LET a == CreateArgs(desc, adjustMonitor)
            IN  /\ mStyle' = a.style
                /\ winStyle' = a.style
                /\ mTop' = a.y
                /\ mLeft' = a.x
                /\ mWidth' = ClientExtent(a.cx, FrameWidth(a.style))
                /\ mHeight' = ClientExtent(a.cy, FrameHeight(a.style))
                /\ mDesiredWidth' = desc.width
                /\ mDesiredHeight' = desc.height
                /\ last' \in Trace("initialize_internal", CoreThread, desc, "ok", Void,
                              MonitorCalls(desc)
                              \o <<[f |-> "CreateWindowEx"] @@ a,
                                   [f |-> "registerWindow"]>>)
       ELSE /\ UNCHANGED <<mStyle, mDesiredWidth, mDesiredHeight>>
            /\ winStyle' = host.style
            /\ mTop' = host.top
            /\ mLeft' = host.left
            /\ mWidth' = host.width
            /\ mHeight' = host.height
            /\ last' \in Trace("initialize_internal", CoreThread, desc, "ok", Void,
                          <<[f |-> "registerWindow"]>>)
    /\ UNCHANGED <<binding, mSwitchingFullscreen>>

----------------------------------------------------------------------------
(* The surface's history: the style and client size the window was created with, *)
(* how far the operations since have gone through setFullscreen(true)            *)
(* ("entering"), _finishSwitchingFullscreen ("entered"), setFullscreen(false,    *)
(* width, height) with that size ("leaving"), _finishSwitchingFullscreen         *)
(* ("left"), and whether a resize has been made with no setFullscreen after it.  *)
(* It is kept for the surfaces InitializeWatched creates.                        *)

TripAtCreation(desc) ==
    [style |-> WindowedStyle(desc), width |-> desc.width, height |-> desc.height,
     stage |-> "created", resized |-> FALSE]

\* After a setFullscreen that differs from the surface's mode and size.  One made
\* with no device bound is undefined (line 356) and ends the sequence.
TripAfterRequest(fullScreen, width, height) ==
    IF trip = NoTrip THEN trip
    ELSE [trip EXCEPT
            !.stage = IF mDevice = NULL THEN "off"
                      ELSE IF trip.stage = "created" /\ fullScreen THEN "entering"
                      ELSE IF /\ trip.stage = "entered" /\ ~fullScreen
                              /\ width = trip.width /\ height = trip.height
                           THEN "leaving"
                      ELSE "off",
            !.resized = FALSE]

\* After a _finishSwitchingFullscreen.
TripAfterFinish ==
    IF trip = NoTrip THEN trip
    ELSE [trip EXCEPT
            !.stage = IF trip.stage = "entering" THEN "entered"
                      ELSE IF trip.stage = "leaving" THEN "left"
                      ELSE "off"]

\* After a resize of a windowed surface.
TripAfterResize ==
    IF trip = NoTrip THEN trip
    ELSE [trip EXCEPT !.stage = "off", !.resized = TRUE]

----------------------------------------------------------------------------
(* The surfaces created. *)

\* mDesc.colorDepth: a 16-bit and a 32-bit back buffer.
ColorDepths == {16, 32}

\* The surfaces created: windowed or fullscreen, of every size and border, centred
\* on the primary monitor, 32 bits deep, without vsync.
Descs ==
    {[fullscreen |-> fs, width |-> sz[1], height |-> sz[2], left |-> -1, top |-> -1,
      monitorIndex |-> -1, border |-> b, external |-> FALSE, colorDepth |-> 32,
      vsync |-> FALSE, vsyncInterval |-> 1,
      parent |-> FALSE, toolWindow |-> FALSE, outerDimensions |-> FALSE] :
        fs \in BOOLEAN, sz \in Sizes, b \in Borders}

\* The surfaces that adopt a host's window (externalWindowHandle).
AdoptedDescs ==
    {[fullscreen |-> fs, width |-> 1, height |-> 1, left |-> -1, top |-> -1,
      monitorIndex |-> -1, border |-> "Normal", external |-> TRUE, colorDepth |-> 32,
      vsync |-> FALSE, vsyncInterval |-> 1,
      parent |-> FALSE, toolWindow |-> FALSE, outerDimensions |-> FALSE] :
        fs \in BOOLEAN}

\* The surfaces created at either colour depth: windowed or fullscreen, resizable.
DepthDescs ==
    {[fullscreen |-> fs, width |-> 2, height |-> 1, left |-> -1, top |-> -1,
      monitorIndex |-> -1, border |-> "Normal", external |-> FALSE, colorDepth |-> d,
      vsync |-> FALSE, vsyncInterval |-> 1,
      parent |-> FALSE, toolWindow |-> FALSE, outerDimensions |-> FALSE] :
        fs \in BOOLEAN, d \in ColorDepths}

\* mDesc.vsyncInterval: the four intervals fullscreen presentation knows, and one
\* below and one above them.
VSyncIntervals == 0..5

\* The surfaces created with and without vsync, at every interval: windowed or
\* fullscreen.
VSyncDescs ==
    {[fullscreen |-> fs, width |-> 2, height |-> 1, left |-> -1, top |-> -1,
      monitorIndex |-> -1, border |-> "Normal", external |-> FALSE, colorDepth |-> 32,
      vsync |-> v, vsyncInterval |-> n,
      parent |-> FALSE, toolWindow |-> FALSE, outerDimensions |-> FALSE] :
        fs \in BOOLEAN, v \in BOOLEAN, n \in VSyncIntervals}

\* mDesc.monitorIndex: none, the two adapters, and one past the last.
MonitorIndices == {-1, 0, 1, 2}

\* mDesc.left and mDesc.top: none, a point on the primary monitor, a point on
\* the secondary, and a top without a left.
Anchors == {<<-1, -1>>, <<1, 1>>, <<6, 2>>, <<-1, 1>>}

\* The surfaces created on a chosen adapter or at a chosen point.
PlacedDescs ==
    {[fullscreen |-> fs, width |-> 2, height |-> 1, left |-> at[1], top |-> at[2],
      monitorIndex |-> i, border |-> "Normal", external |-> FALSE, colorDepth |-> 32,
      vsync |-> FALSE, vsyncInterval |-> 1,
      parent |-> FALSE, toolWindow |-> FALSE, outerDimensions |-> FALSE] :
        fs \in BOOLEAN, at \in Anchors, i \in MonitorIndices}

\* An adopted window: the host gave it a fixed border.
Hosts == {[style |-> BaseStyle \cup WS_FIXED, left |-> 0, top |-> 0,
           width |-> sz[1], height |-> sz[2]] : sz \in Sizes}
NoHost == [style |-> {}, left |-> 0, top |-> 0, width |-> 0, height |-> 0]

Initialize ==
    \E desc \in Descs :
        initialize_internal(desc, "primary", NoHost) /\ UNCHANGED trip

InitializeAdopted ==
    \E desc \in AdoptedDescs, host \in Hosts :
        initialize_internal(desc, "primary", host) /\ UNCHANGED trip

InitializeAtDepth ==
    \E desc \in DepthDescs :
        initialize_internal(desc, "primary", NoHost) /\ UNCHANGED trip

InitializePlaced ==
    \E desc \in PlacedDescs :
        initialize_internal(desc, "primary", NoHost) /\ UNCHANGED trip

\* The surfaces whose history is kept: windowed, of every size and border.
InitializeWatched ==
    \E desc \in {d \in Descs : ~d.fullscreen} :
        initialize_internal(desc, "primary", NoHost) /\ trip' = TripAtCreation(desc)

InitializeWithVSync ==
    \E desc \in VSyncDescs :
        initialize_internal(desc, "primary", NoHost) /\ UNCHANGED trip

----------------------------------------------------------------------------
(* setFullscreen *)

\* SetWindowLong(mHWnd, GWL_STYLE, style) changes the native window's style when
\* there is a window.
StyleAfterSetWindowLong(style) == IF mHWnd # NoWindow THEN style ELSE winStyle

\* A comparison with the desired size instead of the current one.
RequestDiffers_desired(fullScreen, width, height) ==
    fullScreen # mIsFullScreen \/ width # mDesiredWidth \/ height # mDesiredHeight

\* The request differs from the surface's mode or size.
RequestDiffers(fullScreen, width, height) ==
    fullScreen # mIsFullScreen \/ width # mWidth \/ height # mHeight

\* The flag set by every request that differs.
SwitchingAfterRequest_any(fullScreen) == TRUE

\* A request back to the mode the surface is leaving cancels the switch.
SwitchingAfterRequest_toggle(fullScreen) ==
    IF fullScreen # mIsFullScreen THEN ~mSwitchingFullscreen ELSE mSwitchingFullscreen

\* mSwitchingFullscreen after the request is recorded.
SwitchingAfterRequest(fullScreen) ==
    IF fullScreen # mIsFullScreen THEN TRUE ELSE mSwitchingFullscreen

\* A request that sets the current size only.
DesiredAfterRequest_kept(requested, desired) == desired

\* The desired extent after a request for `requested`, given the one before.
DesiredAfterRequest(requested, desired) == requested

\* A fullscreen branch that strips the style before it places the window.
FullscreenCalls_styleFirst(oldFullscreen, left, top, width, height, style) ==
    IF oldFullscreen
    THEN <<SetWindowPos("HWND_TOPMOST", left, top, width, height, {"SWP_NOACTIVATE"})>>
    ELSE <<SetWindowLong(style),
           SetWindowPos("HWND_TOPMOST", left, top, width, height, {"SWP_NOACTIVATE"}),
           SetWindowPos("HWND_TOP", 0, 0, 0, 0,
                        {"SWP_NOACTIVATE", "SWP_NOMOVE", "SWP_NOSIZE", "SWP_NOZORDER",
                         "SWP_FRAMECHANGED"})>>

\* The window-system calls of the fullscreen branch.
FullscreenCalls(oldFullscreen, left, top, width, height, style) ==
    IF oldFullscreen
    THEN <<SetWindowPos("HWND_TOPMOST", left, top, width, height, {"SWP_NOACTIVATE"})>>
    ELSE <<SetWindowPos("HWND_TOPMOST", left, top, width, height, {"SWP_NOACTIVATE"}),
           SetWindowLong(style),
           SetWindowPos("HWND_TOP", 0, 0, 0, 0,
                        {"SWP_NOACTIVATE", "SWP_NOMOVE", "SWP_NOSIZE", "SWP_NOZORDER",
                         "SWP_FRAMECHANGED"})>>

\* The window-system calls of the windowed branch.
WindowedCalls(width, height, style, hMonitor) ==
    LET adj == _adjustWindow(width, height, style, hMonitor)
    IN  <<SetWindowLong(style),
          SetWindowPos("HWND_NOTOPMOST", 0, 0, adj.winWidth, adj.winHeight,
                       {"SWP_DRAWFRAME", "SWP_FRAMECHANGED", "SWP_NOMOVE",
                        "SWP_NOACTIVATE"})>>

\* D3D9Device::invalidate(window): the window's validity flag after it.
ValidAfterInvalidate == FALSE

\* A request that invalidates the device twice.
Invalidation_twice ==
    [calls |-> ThroughDevice("invalidate") \o ThroughDevice("invalidate"),
     valid |-> IF mDevice # NULL THEN ValidAfterInvalidate ELSE mDeviceValid]

\* A request that leaves the device as it is.
Invalidation_skipped == [calls |-> <<>>, valid |-> mDeviceValid]

\* mDevice->invalidate(this), the last step of a request that differs: the call
\* made and the validity flag it leaves.
Invalidation ==
    [calls |-> ThroughDevice("invalidate"),
     valid |-> IF mDevice # NULL THEN ValidAfterInvalidate ELSE mDeviceValid]

\* hMonitor: the monitor MonitorFromWindow answers for the window.
setFullscreen(thr, fullScreen, width, height, hMonitor) ==
    LET args == [fullScreen |-> fullScreen, width |-> width, height |-> height]
    IN
    /\ Alive
    /\ UNCHANGED input
    /\ trip' = IF ~NotCoreThread(thr) /\ RequestDiffers(fullScreen, width, height)
               THEN TripAfterRequest(fullScreen, width, height) ELSE trip
    /\ IF NotCoreThread(thr)
       THEN Throw("setFullscreen", thr)
       ELSE IF RequestDiffers(fullScreen, width, height)
       THEN \E outcome \in DeviceOutcomes :
            LET oldFullscreen == mIsFullScreen
                style == BaseStyle \cup
                         (IF fullScreen THEN WS_POPUP ELSE WS_OVERLAPPEDWINDOW)
                monitorInfo == GetMonitorInfo(hMonitor)
                top  == IF fullScreen THEN monitorInfo.rcMonitor.top ELSE mTop
                left == IF fullScreen THEN monitorInfo.rcMonitor.left ELSE mLeft
                calls == IF fullScreen
                         THEN FullscreenCalls(oldFullscreen, left, top, width, height, style)
                         ELSE WindowedCalls(width, height, style, hMonitor)
            IN  /\ mSwitchingFullscreen' = SwitchingAfterRequest(fullScreen)
                /\ mStyle' = style
                /\ mIsFullScreen' = fullScreen
                /\ mWidth' = width
                /\ mDesiredWidth' = DesiredAfterRequest(width, mDesiredWidth)
                /\ mHeight' = height
                /\ mDesiredHeight' = DesiredAfterRequest(height, mDesiredHeight)
                /\ mTop' = top /\ mLeft' = left
                /\ winStyle' = IF \E i \in 1..Len(calls) : calls[i].f = "SetWindowLong"
                               THEN StyleAfterSetWindowLong(style) ELSE winStyle
                /\ mDeviceValid' = Invalidation.valid
                /\ pc' = PcAfter(outcome)
                /\ last' \in Trace("setFullscreen", thr, args, outcome, Void,
                                  calls \o Invalidation.calls)
                /\ UNCHANGED <<mDevice, handle, config>>
       ELSE /\ last' \in Trace("setFullscreen", thr, args, "ok", Void, <<>>)
            /\ UNCHANGED <<pc, surface>>

----------------------------------------------------------------------------
(* _finishSwitchingFullscreen *)

\* The flag when _finishSwitchingFullscreen returns.
SwitchingAfterFinish == FALSE

\* The window position of the windowed branch: centred in the work area's extent.
FinishPlacement(adj, hMonitor) ==
    LET rcWork  == GetMonitorInfo(hMonitor).rcWork
        screenw == rcWork.right - rcWork.left
        screenh == rcWork.bottom - rcWork.top
    IN  [left |-> IF screenw > adj.winWidth THEN (screenw - adj.winWidth) \div 2 ELSE 0,
         top  |-> IF screenh > adj.winHeight THEN (screenh - adj.winHeight) \div 2 ELSE 0]

\* An adoption test that looks at the width alone.
CurrentIsStale_width == mWidth # mDesiredWidth

\* The current size is not the desired one.
CurrentIsStale == mWidth # mDesiredWidth \/ mHeight # mDesiredHeight

\* No thread check is made here.  hMonitor: the monitor MonitorFromWindow answers
\* for the window, read in windowed mode.
_finishSwitchingFullscreen(thr, hMonitor) ==
    /\ Alive
    /\ UNCHANGED input
    /\ trip' = TripAfterFinish
    /\ IF mIsFullScreen
       THEN /\ last' \in Trace("_finishSwitchingFullscreen", thr, NoArgs, "ok", Void,
                          <<[f |-> "SetWindowRgn", cx |-> mWidth, cy |-> mHeight]>>)
            /\ UNCHANGED <<mWidth, mHeight>>
       ELSE LET adj == _adjustWindow(mDesiredWidth, mDesiredHeight, mStyle, hMonitor)
                at  == FinishPlacement(adj, hMonitor)
            IN  /\ last' \in Trace("_finishSwitchingFullscreen", thr,
                              [hMonitor |-> hMonitor], "ok", Void,
                              <<SetWindowPos("HWND_NOTOPMOST", at.left, at.top,
                                             adj.winWidth, adj.winHeight,
                                             {"SWP_DRAWFRAME", "SWP_FRAMECHANGED",
                                              "SWP_NOACTIVATE"})>>)
                /\ IF CurrentIsStale
                   THEN mWidth' = mDesiredWidth /\ mHeight' = mDesiredHeight
                   ELSE UNCHANGED <<mWidth, mHeight>>
    /\ mSwitchingFullscreen' = SwitchingAfterFinish
    /\ UNCHANGED <<pc, mDesiredWidth, mDesiredHeight, mTop, mLeft, mIsFullScreen, mStyle,
                   binding, handle, config, winStyle>>

----------------------------------------------------------------------------
(* move, resize *)

move(thr, top, left) ==
    LET args == [top |-> top, left |-> left]
    IN
    /\ Alive
    /\ UNCHANGED <<input, trip>>
    /\ IF NotCoreThread(thr)
       THEN Throw("move", thr)
       ELSE IF mHWnd # NoWindow /\ ~mIsFullScreen
       THEN /\ mLeft' = left
            /\ mTop' = top
            /\ last' \in Trace("move", thr, args, "ok", Void,
                          <<SetWindowPos("HWND_TOP", top, left, 0, 0,
                                         {"SWP_NOSIZE", "SWP_NOZORDER", "SWP_NOACTIVATE"})>>)
            /\ UNCHANGED <<pc, mWidth, mHeight, mDesiredWidth, mDesiredHeight,
                           modeState, binding, handle, config, winStyle>>
       ELSE /\ last' \in Trace("move", thr, args, "ok", Void, <<>>)
            /\ UNCHANGED <<pc, surface>>

resize(thr, width, height, hMonitor) ==
    LET args == [width |-> width, height |-> height]
    IN
    /\ Alive
    /\ UNCHANGED input
    /\ trip' = IF ~NotCoreThread(thr) /\ mHWnd # NoWindow /\ ~mIsFullScreen
               THEN TripAfterResize ELSE trip
    /\ IF NotCoreThread(thr)
       THEN Throw("resize", thr)
       ELSE IF mHWnd # NoWindow /\ ~mIsFullScreen
       THEN LET adj == _adjustWindow(width, height, mStyle, hMonitor)
            IN  /\ mWidth' = width
                /\ mHeight' = height
                /\ last' \in Trace("resize", thr, args, "ok", Void,
                              <<SetWindowPos("HWND_TOP", 0, 0, adj.winWidth, adj.winHeight,
                                             {"SWP_NOMOVE", "SWP_NOZORDER",
                                              "SWP_NOACTIVATE"})>>)
                /\ UNCHANGED <<pc, mDesiredWidth, mDesiredHeight, mTop, mLeft,
                               modeState, binding, handle, config, winStyle>>
       ELSE /\ last' \in Trace("resize", thr, args, "ok", Void, <<>>)
            /\ UNCHANGED <<pc, surface>>

----------------------------------------------------------------------------
(* _windowMovedOrResized, updateWindowRect *)

\* The window system's answers to GetWindowRect and GetClientRect: either query
\* may fail, and the second is made only when the first succeeded.
WindowAnswers ==
    [windowRectOk : {FALSE}, clientRectOk : {FALSE},
     left : {0}, top : {0}, width : {0}, height : {0}]
    \cup
    {[windowRectOk |-> TRUE, clientRectOk |-> FALSE,
      left |-> at[1], top |-> at[2], width |-> 0, height |-> 0] : at \in Origins}
    \cup
    {[windowRectOk |-> TRUE, clientRectOk |-> TRUE,
      left |-> at[1], top |-> at[2], width |-> sz[1], height |-> sz[2]] :
        at \in Origins, sz \in Sizes}

\* The queries updateWindowRect makes, with their answers.
QueryCalls(os) ==
    <<[f |-> "GetWindowRect", ok |-> os.windowRectOk, left |-> os.left, top |-> os.top]>>
    \o (IF os.windowRectOk
        THEN <<[f |-> "GetClientRect", ok |-> os.clientRectOk,
                width |-> os.width, height |-> os.height]>>
        ELSE <<>>)

\* A re-read that takes the position from the client rectangle, whose origin is 0.
updateWindowRect_clientOrigin(os) ==
    IF ~os.windowRectOk \/ ~os.clientRectOk
    THEN /\ mTop' = 0 /\ mLeft' = 0 /\ mWidth' = 0 /\ mHeight' = 0
    ELSE /\ mTop' = 0 /\ mLeft' = 0
         /\ mWidth' = os.width /\ mHeight' = os.height

\* updateWindowRect: the geometry it leaves, given the window system's answers.
updateWindowRect(os) ==
    IF ~os.windowRectOk \/ ~os.clientRectOk
    THEN /\ mTop' = 0 /\ mLeft' = 0 /\ mWidth' = 0 /\ mHeight' = 0
    ELSE /\ mTop' = os.top /\ mLeft' = os.left
         /\ mWidth' = os.width /\ mHeight' = os.height

\* A notification that makes the reported size the desired one.
DesiredAfterNotification_adopted(reported, desired) == reported

\* The desired extent after a notification that reported `reported`:
\* updateWindowRect does not assign it.
DesiredAfterNotification(reported, desired) == desired

\* iconic: IsIconic(mHWnd).  os: the answers to the queries, when they are made.
_windowMovedOrResized(thr, iconic, os) ==
    LET args == [iconic |-> iconic]
    IN
    /\ Exists
    /\ UNCHANGED <<input, trip>>
    /\ IF NotCoreThread(thr)
       THEN Throw("_windowMovedOrResized", thr)
       ELSE IF mHWnd = NoWindow \/ iconic
       THEN /\ last' \in Trace("_windowMovedOrResized", thr, args, "ok", Void, <<>>)
            /\ UNCHANGED <<pc, surface>>
       ELSE /\ updateWindowRect(os)
            /\ last' \in Trace("_windowMovedOrResized", thr, args, "ok", Void,
                          QueryCalls(os) \o <<[f |-> "RenderWindow::_windowMovedOrResized"]>>)
            /\ mDesiredWidth' = DesiredAfterNotification(os.width, mDesiredWidth)
            /\ mDesiredHeight' = DesiredAfterNotification(os.height, mDesiredHeight)
            /\ UNCHANGED <<pc, modeState, binding, handle, config, winStyle>>

----------------------------------------------------------------------------
(* The device binding: _setDevice, _validateDevice, swapBuffers, copyToMemory *)

\* A new device that inherits the flag of the one it replaces.
ValidAfterSetDevice_kept == mDeviceValid

\* A new device taken as valid at once.
ValidAfterSetDevice_trusted == TRUE

\* The validity flag of a newly set device.
ValidAfterSetDevice == FALSE

\* No thread check is made here.  device may be NULL.
_setDevice(thr, device) ==
    /\ Alive
    /\ UNCHANGED <<input, trip>>
    /\ mDevice' = device
    /\ mDeviceValid' = ValidAfterSetDevice
    /\ last' \in Trace("_setDevice", thr, [device |-> device], "ok", Void, <<>>)
    /\ UNCHANGED <<pc, geometry, modeState, handle, config, winStyle>>

\* A flag that, once true, stays true.
ValidAfterValidate_sticky(answer) == answer \/ mDeviceValid

\* The flag _validateDevice stores, given the answer of mDevice->validate(this).
ValidAfterValidate(answer) == answer

\* No thread check is made here.  answer: what mDevice->validate(this) returns;
\* through a NULL mDevice, whatever the call leaves when it does not crash.
_validateDevice(thr, answer) ==
    /\ Alive
    /\ UNCHANGED <<input, trip>>
    /\ \E outcome \in DeviceOutcomes :
        /\ pc' = PcAfter(outcome)
        /\ IF outcome = "ok"
           THEN /\ mDeviceValid' = ValidAfterValidate(answer)
                /\ last' \in Trace("_validateDevice", thr, [answer |-> answer], "ok",
                              mDeviceValid', ThroughDevice("validate"))
           ELSE /\ UNCHANGED mDeviceValid
                /\ last' \in Trace("_validateDevice", thr, [answer |-> answer], "crash",
                              Void, <<>>)
    /\ UNCHANGED <<mDevice, geometry, modeState, handle, config, winStyle>>

\* The calls swapBuffers makes on the device.
SwapCalls == IF mDeviceValid THEN ThroughDevice("present") ELSE <<>>

swapBuffers(thr) ==
    /\ Exists
    /\ UNCHANGED <<input, trip>>
    /\ IF NotCoreThread(thr)
       THEN Throw("swapBuffers", thr)
       ELSE \E outcome \in (IF mDeviceValid THEN DeviceOutcomes ELSE {"ok"}) :
            /\ pc' = PcAfter(outcome)
            /\ last' \in Trace("swapBuffers", thr, NoArgs, outcome, Void, SwapCalls)
            /\ UNCHANGED surface

copyToMemory(thr) ==
    /\ Exists
    /\ UNCHANGED <<input, trip>>
    /\ IF NotCoreThread(thr)
       THEN Throw("copyToMemory", thr)
       ELSE \E outcome \in DeviceOutcomes :
            /\ pc' = PcAfter(outcome)
            /\ last' \in Trace("copyToMemory", thr, NoArgs, outcome, Void,
                          ThroughDevice("copyContentsToMemory"))
            /\ UNCHANGED surface

----------------------------------------------------------------------------
(* _buildPresentParameters *)

\* The capability probe's answers: IDirect3D9::CheckDeviceFormat for D3DFMT_D24S8
\* and for D3DFMT_D32, CheckDepthStencilMatch for D3DFMT_D24S8, and what
\* CheckDeviceFormat would answer for D3DFMT_D16.  An adapter without D16 has none
\* of the others.
Probes ==
    [d24s8 : BOOLEAN, d32 : BOOLEAN, match : BOOLEAN, d16 : {TRUE}]
    \cup {[d24s8 |-> FALSE, d32 |-> FALSE, match |-> FALSE, d16 |-> FALSE]}

\* D3DCAPS9::PresentationIntervals, as the set of intervals in the mask.
Masks ==
    {{},
     {"D3DPRESENT_INTERVAL_ONE", "D3DPRESENT_INTERVAL_TWO"},
     {"D3DPRESENT_INTERVAL_ONE", "D3DPRESENT_INTERVAL_THREE", "D3DPRESENT_INTERVAL_FOUR"}}

\* The contents of *presentParams as the caller passes it: the fields this
\* function does not assign, blank or left over from an earlier use.
Blank == [Flags |-> 0]
Stale == [Flags |-> 1]

\* The calls made: every probe with left-over contents, and one with blank ones.
Negotiations ==
    {[probe |-> probe, prev |-> Stale] : probe \in Probes}
    \cup {[probe |-> [d24s8 |-> TRUE, d32 |-> TRUE, match |-> TRUE, d16 |-> TRUE],
           prev |-> Blank]}

CheckDeviceFormat(format, ok) ==
    [f |-> "CheckDeviceFormat", format |-> format, ok |-> ok]

CheckDepthStencilMatch(format, ok) ==
    [f |-> "CheckDepthStencilMatch", format |-> format, ok |-> ok]

BackBufferFormat == IF mColorDepth > 16 THEN "D3DFMT_X8R8G8B8" ELSE "D3DFMT_R5G6B5"

\* A back buffer of the surface's extent as it is.
BackBufferExtent_raw(extent) == extent

\* BackBufferWidth and BackBufferHeight: never 0.
BackBufferExtent(extent) == IF extent = 0 THEN 1 ELSE extent

\* A chain that stops at the 32-bit format whatever the probe says of it.
AutoDepthStencilFormat_noD16(probe) ==
    IF mColorDepth > 16
    THEN IF ~probe.d24s8
         THEN "D3DFMT_D32"
         ELSE IF probe.match THEN "D3DFMT_D24S8" ELSE "D3DFMT_D24X8"
    ELSE "D3DFMT_D16"

\* A chain that takes the stencil format without the surface-compatibility check.
AutoDepthStencilFormat_noMatch(probe) ==
    IF mColorDepth > 16
    THEN IF ~probe.d24s8
         THEN IF ~probe.d32 THEN "D3DFMT_D16" ELSE "D3DFMT_D32"
         ELSE "D3DFMT_D24S8"
    ELSE "D3DFMT_D16"

\* AutoDepthStencilFormat, given the probe's answers.
AutoDepthStencilFormat(probe) ==
    IF mColorDepth > 16
    THEN IF ~probe.d24s8
         THEN IF ~probe.d32 THEN "D3DFMT_D16" ELSE "D3DFMT_D32"
         ELSE IF probe.match THEN "D3DFMT_D24S8" ELSE "D3DFMT_D24X8"
    ELSE "D3DFMT_D16"

\* The questions put to the probe, with its answers.
ProbeCalls(probe) ==
    IF mColorDepth > 16
    THEN <<CheckDeviceFormat("D3DFMT_D24S8", probe.d24s8)>>
         \o (IF ~probe.d24s8
             THEN <<CheckDeviceFormat("D3DFMT_D32", probe.d32)>>
             ELSE <<CheckDepthStencilMatch("D3DFMT_D24S8", probe.match)>>)
    ELSE <<>>

\* A build that assigns its fields over whatever the structure held.
ZeroMemory_skipped(presentParams) == presentParams

\* ZeroMemory(presentParams, sizeof(D3DPRESENT_PARAMETERS))
ZeroMemory(presentParams) == [Flags |-> 0]

\* The interval a count of blanks selects.
IntervalFor(count) ==
    IF count = 2 THEN "D3DPRESENT_INTERVAL_TWO"
    ELSE IF count = 3 THEN "D3DPRESENT_INTERVAL_THREE"
    ELSE IF count = 4 THEN "D3DPRESENT_INTERVAL_FOUR"
    ELSE "D3DPRESENT_INTERVAL_ONE"

\* An interval taken as asked, whatever the adapter supports.
PresentationInterval_unchecked(caps) ==
    IF mVSync
    THEN IF mIsFullScreen
         THEN IntervalFor(mVSyncInterval)
         ELSE "D3DPRESENT_INTERVAL_ONE"
    ELSE "D3DPRESENT_INTERVAL_IMMEDIATE"

\* Vsync that a windowed surface ignores.
PresentationInterval_windowedImmediate(caps) ==
    IF mVSync /\ mIsFullScreen
    THEN IF IntervalFor(mVSyncInterval) \in caps
         THEN IntervalFor(mVSyncInterval)
         ELSE "D3DPRESENT_INTERVAL_ONE"
    ELSE "D3DPRESENT_INTERVAL_IMMEDIATE"

\* PresentationInterval, given the adapter's mask.
PresentationInterval(caps) ==
    IF mVSync
    THEN IF mIsFullScreen
         THEN IF IntervalFor(mVSyncInterval) \in caps
              THEN IntervalFor(mVSyncInterval)
              ELSE "D3DPRESENT_INTERVAL_ONE"
         ELSE "D3DPRESENT_INTERVAL_ONE"
    ELSE "D3DPRESENT_INTERVAL_IMMEDIATE"

\* The adapter's capabilities are read for a fullscreen surface with vsync.
CapsCalls(caps) ==
    IF mVSync /\ mIsFullScreen
    THEN <<[f |-> "GetDeviceCaps", PresentationIntervals |-> caps]>>
    ELSE <<>>

\* The D3DPRESENT_PARAMETERS built over the contents prev.
PresentParameters(prev, probe, caps) ==
    [Flags |-> ZeroMemory(prev).Flags,
     Windowed |-> ~mIsFullScreen,
     BackBufferCount |-> IF mVSync THEN 2 ELSE 1,
     PresentationInterval |-> PresentationInterval(caps),
     hDeviceWindow |-> mHWnd,
     BackBufferWidth |-> BackBufferExtent(mWidth),
     BackBufferHeight |-> BackBufferExtent(mHeight),
     BackBufferFormat |-> BackBufferFormat,
     AutoDepthStencilFormat |-> AutoDepthStencilFormat(probe)]

\* No thread check is made here.  The adapter number and the D3D device are read
\* through mDevice without a test for NULL; a build that crashes there has asked
\* the probe nothing.
_buildPresentParameters(thr, prev, probe, caps) ==
    /\ Alive
    /\ UNCHANGED <<input, trip>>
    /\ \E outcome \in DeviceOutcomes :
        /\ pc' = PcAfter(outcome)
        /\ last' \in Trace("_buildPresentParameters", thr,
                      [prev |-> prev, probe |-> probe, caps |-> caps], outcome,
                      IF outcome = "ok" THEN PresentParameters(prev, probe, caps)
                      ELSE Void,
                      IF outcome = "ok"
                      THEN ThroughDevice("getDeviceType") \o CapsCalls(caps)
                           \o ProbeCalls(probe)
                           \o ThroughDevice("getD3D9Device")
                           \o <<[f |-> "determineFSAASettings"]>>
                      ELSE <<>>)
        /\ UNCHANGED surface

----------------------------------------------------------------------------
(* startMove, startResize *)

\* WindowResizeDirection
Directions ==
    {"Left", "TopLeft", "Top", "TopRight", "Right", "BottomRight", "Bottom", "BottomLeft"}

\* The hit-test code startResize sends for a direction.
HitTest(direction) ==
    CASE direction = "Left"        -> "HTLEFT"
      [] direction = "TopLeft"     -> "HTTOPLEFT"
      [] direction = "Top"         -> "HTTOP"
      [] direction = "TopRight"    -> "HTTOPRIGHT"
      [] direction = "Right"       -> "HTRIGHT"
      [] direction = "BottomRight" -> "HTBOTTOMRIGHT"
      [] direction = "Bottom"      -> "HTBOTTOM"
      [] direction = "BottomLeft"  -> "HTBOTTOMLEFT"

\* SendMessage(mHWnd, WM_NCLBUTTONDOWN, wParam, 0)
SendMessage(wParam) == [f |-> "SendMessage", Msg |-> "WM_NCLBUTTONDOWN", wParam |-> wParam]

\* A release that is simulated twice.
HACK_SendLMBUpEvent_twice(released) == released + 2

\* gInput().simulateButtonUp(BC_MOUSE_LEFT): the button-up events the input system
\* has after it.
HACK_SendLMBUpEvent(released) == released + 1

\* The call enters SendMessage, which runs the window system's modal loop and does
\* not return until the user ends the gesture.
EnterModalLoop(op, thr, wParam) ==
    /\ Alive
    /\ gesture = NoGesture
    /\ gestures < MaxGestures
    /\ gesture' = [op |-> op, thr |-> thr, wParam |-> wParam]
    /\ gestures' = gestures + 1
    /\ last' = Quiet
    /\ UNCHANGED <<pc, surface, buttonUps, trip>>

\* No thread check is made here.
startMove(thr) == EnterModalLoop("startMove", thr, "HTCAPTION")

\* No thread check is made here.
startResize(thr, direction) == EnterModalLoop("startResize", thr, HitTest(direction))

\* SendMessage returns to the startMove or startResize that called it, which
\* simulates the release and returns.
SendMessageReturns ==
    /\ Alive
    /\ gesture # NoGesture
    /\ gesture' = NoGesture
    /\ buttonUps' = HACK_SendLMBUpEvent(buttonUps)
    /\ last' \in Trace(gesture.op, gesture.thr, [wParam |-> gesture.wParam], "ok", Void,
                  <<SendMessage(gesture.wParam),
                    [f |-> "simulateButtonUp", button |-> "BC_MOUSE_LEFT"]>>)
    /\ UNCHANGED <<pc, surface, gestures, trip>>

----------------------------------------------------------------------------
(* destroy_internal *)

\* A teardown that detaches whatever mDevice holds.
DetachCalls_always == <<DeviceCall("detachRenderWindow", mDevice)>>

\* The detach step: made only when a device is bound.
DetachCalls ==
    IF mDevice # NULL THEN <<DeviceCall("detachRenderWindow", mDevice)>> ELSE <<>>

\* The window is destroyed when the surface created it.
DestroysWindow == mHWnd # NoWindow /\ ~mIsExternal

destroy_internal ==
    /\ Exists
    /\ UNCHANGED <<input, trip>>
    /\ pc' = "destroyed"
    /\ mDevice' = NULL
    /\ mHWnd' = NoWindow
    /\ winStyle' = IF DestroysWindow THEN {} ELSE winStyle
    /\ last' \in Trace("destroy_internal", CoreThread, NoArgs, "ok", Void,
                  DetachCalls
                  \o (IF DestroysWindow THEN <<[f |-> "DestroyWindow"]>> ELSE <<>>))
    /\ UNCHANGED <<mDeviceValid, mIsExternal, geometry, modeState, config>>

----------------------------------------------------------------------------
(* The specification. *)

\* The inputs of a call: a call from another thread ends before it reads any, so
\* one stands for all.
InputsFrom(thr, inputs) ==
    IF thr = CoreThread THEN inputs ELSE {CHOOSE i \in inputs : TRUE}

SetFullscreen ==
    \E thr \in Threads :
        \E fullScreen \in InputsFrom(thr, BOOLEAN), sz \in InputsFrom(thr, Sizes),
           hMonitor \in InputsFrom(thr, Monitors) :
            setFullscreen(thr, fullScreen, sz[1], sz[2], hMonitor)

FinishSwitchingFullscreen ==
    \E thr \in Threads, hMonitor \in Monitors : _finishSwitchingFullscreen(thr, hMonitor)

Move ==
    \E thr \in Threads :
        \E at \in InputsFrom(thr, Origins) : move(thr, at[2], at[1])

Resize ==
    \E thr \in Threads :
        \E sz \in InputsFrom(thr, Sizes), hMonitor \in InputsFrom(thr, Monitors) :
            resize(thr, sz[1], sz[2], hMonitor)

WindowMovedOrResized ==
    \E thr \in Threads :
        \E iconic \in InputsFrom(thr, BOOLEAN) :
            \E os \in (IF iconic THEN {CHOOSE a \in WindowAnswers : TRUE}
                        ELSE InputsFrom(thr, WindowAnswers)) :
                _windowMovedOrResized(thr, iconic, os)

SetDevice ==
    \E thr \in Threads, device \in Devices \cup {NULL} : _setDevice(thr, device)

ValidateDevice ==
    \E thr \in Threads, answer \in BOOLEAN : _validateDevice(thr, answer)

SwapBuffers == \E thr \in Threads : swapBuffers(thr)

CopyToMemory == \E thr \in Threads : copyToMemory(thr)

\* The build reads no thread: every negotiation is made from the core thread and
\* one from any other.  The adapter's mask is an input where it is read.
NegotiationsFrom(thr) ==
    IF thr = CoreThread THEN Negotiations
    ELSE {[probe |-> [d24s8 |-> TRUE, d32 |-> TRUE, match |-> TRUE, d16 |-> TRUE],
           prev |-> Stale]}

BuildPresentParameters ==
    \E thr \in Threads :
        \E n \in NegotiationsFrom(thr),
           caps \in (IF mVSync /\ mIsFullScreen THEN Masks
                     ELSE {CHOOSE m \in Masks : TRUE}) :
            _buildPresentParameters(thr, n.prev, n.probe, caps)

Operations ==
    \/ SetFullscreen
    \/ FinishSwitchingFullscreen
    \/ Move
    \/ Resize
    \/ WindowMovedOrResized
    \/ SetDevice
    \/ ValidateDevice
    \/ SwapBuffers
    \/ CopyToMemory
    \/ BuildPresentParameters
    \/ destroy_internal

\* Surfaces that create their window.
Next == Initialize \/ Operations

Spec == Init /\ [][Next]_vars

\* Surfaces that adopt a window.
NextAdopted == InitializeAdopted \/ Operations

SpecAdopted == Init /\ [][NextAdopted]_vars

\* Surfaces of either colour depth.
NextAtDepth == InitializeAtDepth \/ Operations

SpecAtDepth == Init /\ [][NextAtDepth]_vars

\* Surfaces created on a chosen adapter or at a chosen point, and their mode.
NextPlaced ==
    \/ InitializePlaced
    \/ SetFullscreen
    \/ FinishSwitchingFullscreen
    \/ SetDevice

SpecPlaced == Init /\ [][NextPlaced]_vars

StartMove == \E thr \in Threads : startMove(thr)

StartResize == \E thr \in Threads, direction \in Directions : startResize(thr, direction)

\* Surfaces created on a chosen adapter or at a chosen point, moved and resized by
\* gestures; the window system reports the window's rectangle during the modal
\* loop and after it.
NextGestures ==
    \/ InitializePlaced
    \/ StartMove
    \/ StartResize
    \/ SendMessageReturns
    \/ WindowMovedOrResized

SpecGestures == Init /\ [][NextGestures]_vars

\* Surfaces whose history is kept, their mode, size and binding.
NextWatched ==
    \/ InitializeWatched
    \/ SetFullscreen
    \/ FinishSwitchingFullscreen
    \/ Resize
    \/ SetDevice

SpecWatched == Init /\ [][NextWatched]_vars

\* Surfaces with and without vsync, their mode, binding and presentation
\* parameters.
NextWithVSync ==
    \/ InitializeWithVSync
    \/ SetFullscreen
    \/ FinishSwitchingFullscreen
    \/ SetDevice
    \/ BuildPresentParameters

SpecWithVSync == Init /\ [][NextWithVSync]_vars

----------------------------------------------------------------------------
(* The claims.  Each is stated of the recorded operation: last.pre is the        *)
(* surface as the operation found it, the variables are the surface as it left   *)
(* it.                                                                           *)

\* The recorded operation is op, and it returned normally.
Returned(op) == last.op = op /\ last.outcome = "ok"

\* The recorded setFullscreen asked for a mode or size other than the surface's.
AskedForChange ==
    \/ last.args.fullScreen # last.pre.mIsFullScreen
    \/ last.args.width # last.pre.mWidth
    \/ last.args.height # last.pre.mHeight

\* The recorded operation changed no field of the surface but those named.
ChangedOnly(fields) ==
    \A f \in (DOMAIN Snapshot) \ fields : Snapshot[f] = last.pre[f]

\* C1: setFullscreen called with the surface's current fullscreen flag, width and
\* height is a no-op: no field of the surface changes (mode, sizes, desired sizes,
\* position, style, transitional flag, validity flag, binding), and no call is
\* made to the window system or to the device, so the device is not invalidated.
C1_SameRequestIsNoOp ==
    (Returned("setFullscreen") /\ ~AskedForChange)
        => (ChangedOnly({}) /\ last.calls = <<>>)

\* A valid fullscreen surface was asked for the mode and size it has.
C1_Witness ==
    /\ Returned("setFullscreen") /\ ~AskedForChange
    /\ last.pre.mIsFullScreen /\ last.pre.mDeviceValid
    /\ mDeviceValid /\ last.calls = <<>>

\* C2: setFullscreen leaves the transitional flag true whenever the requested
\* fullscreen flag differs from the surface's, and leaves the flag as it was
\* whenever the requested flag is the surface's (a resize in the same mode, or a
\* no-op): it never turns the flag on for a pure resize.
C2_SwitchingIffModeChanges ==
    Returned("setFullscreen")
        => /\ (last.args.fullScreen # last.pre.mIsFullScreen) => mSwitchingFullscreen
           /\ (last.args.fullScreen = last.pre.mIsFullScreen)
                => (mSwitchingFullscreen = last.pre.mSwitchingFullscreen)

\* A windowed surface not in transition was asked to go fullscreen.
C2_Witness ==
    /\ Returned("setFullscreen")
    /\ ~last.pre.mIsFullScreen /\ last.args.fullScreen
    /\ ~last.pre.mSwitchingFullscreen /\ mSwitchingFullscreen

\* C3: _finishSwitchingFullscreen leaves the transitional flag false, in either
\* mode, and it is the only operation that turns the flag off: no other operation
\* finds the flag true and leaves it false, a second setFullscreen that reverses
\* or resizes the pending switch included.
C3_FinishIsSoleExit ==
    /\ last.op = "_finishSwitchingFullscreen" => ~mSwitchingFullscreen
    /\ (last # Quiet /\ last.pre.mSwitchingFullscreen /\ ~mSwitchingFullscreen)
            => last.op = "_finishSwitchingFullscreen"

\* _finishSwitchingFullscreen found the flag true and cleared it.
C3_Witness ==
    /\ last.op = "_finishSwitchingFullscreen"
    /\ last.pre.mSwitchingFullscreen /\ ~mSwitchingFullscreen

\* C4: when setFullscreen(fullScreen, width, height) asks for a mode or size other
\* than the surface's, then on its return the fullscreen flag is the requested one
\* and the current and the desired width and height are the requested ones.
C4_RequestRecordedAtOnce ==
    (Returned("setFullscreen") /\ AskedForChange)
        => /\ mIsFullScreen = last.args.fullScreen
           /\ mWidth = last.args.width /\ mDesiredWidth = last.args.width
           /\ mHeight = last.args.height /\ mDesiredHeight = last.args.height

\* A windowed surface was asked to go fullscreen at a width and a height other
\* than its desired ones.
C4_Witness ==
    /\ Returned("setFullscreen")
    /\ ~last.pre.mIsFullScreen /\ last.args.fullScreen
    /\ last.args.width # last.pre.mDesiredWidth
    /\ last.args.height # last.pre.mDesiredHeight
    /\ mIsFullScreen /\ mDesiredWidth = last.args.width

\* C5: with a device bound, a setFullscreen that asks for another mode or size
\* calls invalidate on that device exactly once, and one that asks for the
\* surface's own mode and size does not call it.
C5_InvalidatedExactlyOnce ==
    (Returned("setFullscreen") /\ last.pre.mDevice # NULL)
        => IF AskedForChange
           THEN /\ Cardinality(Called("invalidate")) = 1
                /\ \A i \in Called("invalidate") : last.calls[i].device = last.pre.mDevice
           ELSE Called("invalidate") = {}

\* A fullscreen surface with a device was asked for another resolution.
C5_Witness ==
    /\ Returned("setFullscreen") /\ last.pre.mDevice # NULL
    /\ last.pre.mIsFullScreen /\ last.args.fullScreen
    /\ last.args.width # last.pre.mWidth
    /\ Cardinality(Called("invalidate")) = 1

\* C6: after a setFullscreen that asks for another mode or size of a surface with
\* a device bound, the validity flag is false and the same device is still bound;
\* and the flag goes from false to true only in a _validateDevice whose device
\* answers true.
C6_InvalidUntilValidated ==
    /\ (Returned("setFullscreen") /\ AskedForChange /\ last.pre.mDevice # NULL)
            => (~mDeviceValid /\ mDevice = last.pre.mDevice)
    /\ (last # Quiet /\ ~last.pre.mDeviceValid /\ mDeviceValid)
            => (last.op = "_validateDevice" /\ last.args.answer)

\* A valid surface was asked for another mode or size.
C6_Witness ==
    /\ Returned("setFullscreen") /\ AskedForChange
    /\ last.pre.mDeviceValid /\ last.pre.mDevice # NULL
    /\ ~mDeviceValid /\ mDevice = last.pre.mDevice

\* C7: _setDevice(device) leaves the surface bound to the given device, whatever
\* was bound before, with the validity flag false, and changes no other field.
C7_SetDeviceReplacesBinding ==
    last.op = "_setDevice"
        => /\ mDevice = last.args.device
           /\ ~mDeviceValid
           /\ ChangedOnly({"mDevice", "mDeviceValid"})

\* A valid binding was replaced by another device.
C7_Witness ==
    /\ last.op = "_setDevice"
    /\ last.pre.mDevice \in Devices /\ last.pre.mDeviceValid
    /\ mDevice \in Devices \ {last.pre.mDevice}

\* C8: _validateDevice on a surface with a device bound asks that device once,
\* stores its answer in the validity flag, returns the same value, and changes
\* neither the binding nor any other field.
C8_ValidateStoresAnswer ==
    (last.op = "_validateDevice" /\ last.pre.mDevice # NULL)
        => /\ last.outcome = "ok"
           /\ last.calls = <<DeviceCall("validate", last.pre.mDevice)>>
           /\ mDeviceValid = last.args.answer
           /\ last.ret = last.args.answer
           /\ ChangedOnly({"mDeviceValid"})

\* A valid surface was validated again and its device answered false.
C8_Witness ==
    /\ last.op = "_validateDevice" /\ last.pre.mDevice # NULL
    /\ last.pre.mDeviceValid /\ ~last.args.answer /\ ~mDeviceValid

\* C9: swapBuffers and copyToMemory are refused with a precondition failure when
\* no device is bound; with a device bound and the validity flag false swapBuffers
\* returns normally without a present; with a device bound and the flag true it
\* calls present on that device exactly once.
C9_PresentationNeedsDevice ==
    /\ (last.op \in {"swapBuffers", "copyToMemory"} /\ last.thr = CoreThread
        /\ last.pre.mDevice = NULL)
            => last.outcome = "precondition_failure"
    /\ (last.op = "swapBuffers" /\ last.thr = CoreThread /\ last.pre.mDevice # NULL)
            => /\ last.outcome = "ok"
               /\ last.calls = IF last.pre.mDeviceValid
                               THEN <<DeviceCall("present", last.pre.mDevice)>>
                               ELSE <<>>

\* The operations C10 names.
CoreThreadOperations ==
    {"setFullscreen", "_finishSwitchingFullscreen", "resize", "move",
     "_windowMovedOrResized", "_setDevice", "_validateDevice", "swapBuffers"}

\* C10: each of setFullscreen, _finishSwitchingFullscreen, resize, move,
\* _windowMovedOrResized, _setDevice, _validateDevice and swapBuffers, called from
\* a thread other than the core thread, fails with a thread-affinity violation and
\* leaves every field of the surface as it was.
C10_OtherThreadRefused ==
    (last.op \in CoreThreadOperations /\ last.thr # CoreThread)
        => (last.outcome = "thread_violation" /\ ChangedOnly({}))

\* C11: destroy_internal leaves the surface unbound; when a device was bound it
\* calls detachRenderWindow on that device exactly once, and when none was bound,
\* as in a second teardown, it makes no detach call on any device.
C11_TeardownDetachesOnce ==
    last.op = "destroy_internal"
        => /\ mDevice = NULL
           /\ IF last.pre.mDevice # NULL
              THEN /\ Cardinality(Called("detachRenderWindow")) = 1
                   /\ \A i \in Called("detachRenderWindow") :
                        last.calls[i].device = last.pre.mDevice
              ELSE Called("detachRenderWindow") = {}

\* A bound surface was torn down.
C11_Witness ==
    /\ last.op = "destroy_internal"
    /\ last.pre.mDevice \in Devices /\ mDevice = NULL
    /\ Cardinality(Called("detachRenderWindow")) = 1

\* C12: no operation on a surface that adopted its window destroys that window or
\* changes its style: no DestroyWindow and no SetWindowLong call is made, and the
\* native window's style is as the operation found it.
C12_AdoptedWindowUntouched ==
    (last # Quiet /\ last.pre.mIsExternal)
        => /\ winStyle = last.pre.winStyle
           /\ Called("DestroyWindow") = {}
           /\ Called("SetWindowLong") = {}

\* The operations that record a size request, initialization included.
SizeRequests == {"initialize_internal", "setFullscreen", "resize"}

\* C13: the desired width and height are changed by no operation other than an
\* explicit size request: _windowMovedOrResized (its queries failing or not, a
\* switch pending or not), _finishSwitchingFullscreen, move, _setDevice,
\* _validateDevice, swapBuffers and _buildPresentParameters leave them as they were.
C13_DesiredOnlyByRequest ==
    (last # Quiet /\ last.op \notin SizeRequests)
        => /\ mDesiredWidth = last.pre.mDesiredWidth
           /\ mDesiredHeight = last.pre.mDesiredHeight

\* While a switch was pending the window system reported a size other than the
\* desired one.
C13_Witness ==
    /\ last.op = "_windowMovedOrResized"
    /\ last.pre.mSwitchingFullscreen
    /\ mWidth # last.pre.mWidth /\ mWidth # mDesiredWidth
    /\ mDesiredWidth = last.pre.mDesiredWidth

\* C14: _finishSwitchingFullscreen in windowed mode sizes the window for the
\* desired client size, not the current one, and leaves the current width and
\* height equal to the desired ones, which it does not change.
C14_FinishRestoresDesired ==
    (last.op = "_finishSwitchingFullscreen" /\ ~last.pre.mIsFullScreen)
        => /\ mWidth = last.pre.mDesiredWidth /\ mHeight = last.pre.mDesiredHeight
           /\ mDesiredWidth = last.pre.mDesiredWidth
           /\ mDesiredHeight = last.pre.mDesiredHeight
           /\ Len(last.calls) = 1 /\ last.calls[1].f = "SetWindowPos"
           /\ \E hMonitor \in Monitors :
                LET rcWork == GetMonitorInfo(hMonitor).rcWork
                IN  /\ last.calls[1].cx =
                            Min(last.pre.mDesiredWidth + FrameWidth(last.pre.mStyle),
                                rcWork.right - rcWork.left)
                    /\ last.calls[1].cy =
                            Min(last.pre.mDesiredHeight + FrameHeight(last.pre.mStyle),
                                rcWork.bottom - rcWork.top)

\* A pending switch to windowed mode, its current size overwritten since the
\* request, was finished.
C14_Witness ==
    /\ last.op = "_finishSwitchingFullscreen"
    /\ ~last.pre.mIsFullScreen /\ last.pre.mSwitchingFullscreen
    /\ last.pre.mWidth # last.pre.mDesiredWidth
    /\ mWidth = mDesiredWidth /\ mHeight = mDesiredHeight

\* C15: _windowMovedOrResized changes nothing and asks the window system nothing
\* when the window is iconic or the surface has no handle; otherwise it changes
\* only top, left, width and height, and when both queries succeed these are the
\* outer rectangle's origin and the client rectangle's size.
C15_NotificationRereadsGeometry ==
    (last.op = "_windowMovedOrResized" /\ last.thr = CoreThread)
        => IF last.args.iconic \/ last.pre.mHWnd = NoWindow
           THEN ChangedOnly({}) /\ last.calls = <<>>
           ELSE /\ ChangedOnly({"mTop", "mLeft", "mWidth", "mHeight"})
                /\ (last.calls[1].ok /\ last.calls[2].ok)
                    => /\ mTop = last.calls[1].top /\ mLeft = last.calls[1].left
                       /\ mWidth = last.calls[2].width
                       /\ mHeight = last.calls[2].height

\* The window system reported another position and another size.
C15_Witness ==
    /\ last.op = "_windowMovedOrResized" /\ last.thr = CoreThread
    /\ ~last.args.iconic /\ last.pre.mHWnd # NoWindow
    /\ last.calls[1].ok /\ last.calls[2].ok
    /\ mLeft # last.pre.mLeft /\ mLeft = last.calls[1].left /\ mLeft # 0
    /\ mWidth # last.pre.mWidth /\ mWidth = last.calls[2].width

\* The recorded operation put a query to the window system that failed.
QueryFailed ==
    \E i \in Called("GetWindowRect") \cup Called("GetClientRect") : ~last.calls[i].ok

\* C16: when a geometry query fails in _windowMovedOrResized, whichever of the
\* two, top, left, width and height are all left zero and the operation reports
\* the failure to its caller.
C16_QueryFailureReported ==
    (last.op = "_windowMovedOrResized" /\ QueryFailed)
        => /\ mTop = 0 /\ mLeft = 0 /\ mWidth = 0 /\ mHeight = 0
           /\ last.outcome = "query_failure"

\* _adjustWindow's result is the decorated size or the work area's extent,
\* whichever is less, for every client size, style and monitor.
ClampedForAllInputs ==
    \A w \in 0..MaxDim, h \in 0..MaxDim, style \in Styles, hMonitor \in Monitors :
        LET rcWork == GetMonitorInfo(hMonitor).rcWork
            adj    == _adjustWindow(w, h, style, hMonitor)
        IN  /\ adj.winWidth = Min(w + FrameWidth(style), rcWork.right - rcWork.left)
            /\ adj.winHeight = Min(h + FrameHeight(style), rcWork.bottom - rcWork.top)
            /\ adj.winWidth <= rcWork.right - rcWork.left
            /\ adj.winHeight <= rcWork.bottom - rcWork.top

\* C17: for every client size, style and monitor, _adjustWindow returns the client
\* width plus the frame's width, or the work area's width if that is less, and
\* likewise for the height, so neither exceeds the work area; the window size
\* resize passes to the window system is that value.
C17_AdjustWindowClamps ==
    /\ ClampedForAllInputs
    /\ (last.op = "resize" /\ last.calls # <<>>)
        => \E hMonitor \in Monitors :
            LET rcWork == GetMonitorInfo(hMonitor).rcWork
            IN  /\ last.calls[1].cx = Min(last.args.width + FrameWidth(last.pre.mStyle),
                                          rcWork.right - rcWork.left)
                /\ last.calls[1].cy = Min(last.args.height + FrameHeight(last.pre.mStyle),
                                          rcWork.bottom - rcWork.top)

\* A resize whose decorated width does not fit the monitor's work area.
C17_Witness ==
    /\ last.op = "resize" /\ last.calls # <<>>
    /\ last.calls[1].cx < last.args.width + FrameWidth(last.pre.mStyle)
    /\ \E hMonitor \in Monitors :
        LET rcWork == GetMonitorInfo(hMonitor).rcWork
        IN  last.calls[1].cx = rcWork.right - rcWork.left

\* C18: a surface created windowed with no explicit position, its decorated size
\* smaller than the work area, gets a window centred in the work area: the left
\* and right margins differ by at most 1, and so do the top and bottom margins,
\* for every border.
C18_CreatedWindowCentred ==
    (/\ last.op = "initialize_internal"
     /\ ~last.args.external /\ ~last.args.fullscreen
     /\ last.args.left = -1 /\ last.args.top = -1)
        => LET rcWork == GetMonitorInfo(InitialMonitor(last.args)).rcWork
               style  == WindowedStyle(last.args)
               create == last.calls[CHOOSE i \in Called("CreateWindowEx") : TRUE]
               marginL == create.x - rcWork.left
               marginR == rcWork.right - (create.x + create.cx)
               marginT == create.y - rcWork.top
               marginB == rcWork.bottom - (create.y + create.cy)
           IN  (/\ last.args.width + FrameWidth(style) < rcWork.right - rcWork.left
                /\ last.args.height + FrameHeight(style) < rcWork.bottom - rcWork.top)
                    => /\ marginL - marginR \in -1..1
                       /\ marginT - marginB \in -1..1

\* C19: _buildPresentParameters on a surface more than 16 bits deep, its probe
\* rejecting D24S8, returns D32 if the probe accepts D32 and D16 if it rejects
\* that too; on a surface 16 bits deep or less it returns D16 and asks the probe
\* nothing.
C19_DepthFormatFallsBack ==
    Returned("_buildPresentParameters")
        => /\ (last.pre.mColorDepth > 16 /\ ~last.args.probe.d24s8)
                => last.ret.AutoDepthStencilFormat =
                        IF last.args.probe.d32 THEN "D3DFMT_D32" ELSE "D3DFMT_D16"
           /\ (last.pre.mColorDepth <= 16)
                => /\ last.ret.AutoDepthStencilFormat = "D3DFMT_D16"
                   /\ Called("CheckDeviceFormat") = {}
                   /\ Called("CheckDepthStencilMatch") = {}

\* A 32-bit surface whose probe rejects D24S8 and D32 got D16.
C19_Witness ==
    /\ Returned("_buildPresentParameters")
    /\ last.pre.mColorDepth > 16 /\ last.pre.mDevice # NULL
    /\ ~last.args.probe.d24s8 /\ ~last.args.probe.d32
    /\ last.ret.AutoDepthStencilFormat = "D3DFMT_D16"
    /\ Cardinality(Called("CheckDeviceFormat")) = 2

\* C20: _buildPresentParameters on a surface more than 16 bits deep, its probe
\* accepting D24S8, returns D24S8 when the depth/stencil match check passes and
\* D24X8 when it does not, whatever the probe would say of D32: never D32 or D16.
C20_StencilFormatPreferred ==
    (/\ Returned("_buildPresentParameters")
     /\ last.pre.mColorDepth > 16 /\ last.args.probe.d24s8)
        => /\ last.ret.AutoDepthStencilFormat =
                IF last.args.probe.match THEN "D3DFMT_D24S8" ELSE "D3DFMT_D24X8"
           /\ last.ret.AutoDepthStencilFormat \notin {"D3DFMT_D32", "D3DFMT_D16"}

\* A 32-bit surface whose probe accepts D24S8 and D32 but fails the match check
\* got D24X8.
C20_Witness ==
    /\ Returned("_buildPresentParameters")
    /\ last.pre.mColorDepth > 16 /\ last.pre.mDevice # NULL
    /\ last.args.probe.d24s8 /\ last.args.probe.d32 /\ ~last.args.probe.match
    /\ last.ret.AutoDepthStencilFormat = "D3DFMT_D24X8"

\* C21: _buildPresentParameters on a bound surface more than 16 bits deep hands
\* its caller no rejection of the probe while D16 is available, and when the probe
\* rejects D24S8, D32 and D16 it fails with a configuration error in place of
\* returning parameters.
C21_LastRejectionFails ==
    (/\ last.op = "_buildPresentParameters"
     /\ last.pre.mColorDepth > 16 /\ last.pre.mDevice # NULL)
        => IF \/ last.args.probe.d24s8 \/ last.args.probe.d32 \/ last.args.probe.d16
           THEN last.outcome = "ok"
           ELSE last.outcome = "configuration_error" /\ last.ret = Void

\* C22: _buildPresentParameters on a fullscreen surface with vsync whose interval
\* count is 1, 2, 3 or 4 reads the adapter's capabilities once and returns the
\* interval of that count when the adapter's mask holds it, and the single
\* interval when it does not.
C22_IntervalCheckedAgainstMask ==
    (/\ Returned("_buildPresentParameters")
     /\ last.pre.mVSync /\ last.pre.mIsFullScreen /\ last.pre.mVSyncInterval \in 1..4)
        => LET asked == <<"D3DPRESENT_INTERVAL_ONE", "D3DPRESENT_INTERVAL_TWO",
                          "D3DPRESENT_INTERVAL_THREE",
                          "D3DPRESENT_INTERVAL_FOUR">>[last.pre.mVSyncInterval]
           IN  /\ Cardinality(Called("GetDeviceCaps")) = 1
               /\ \A i \in Called("GetDeviceCaps") :
                    last.calls[i].PresentationIntervals = last.args.caps
               /\ last.ret.PresentationInterval =
                    IF asked \in last.args.caps THEN asked
                    ELSE "D3DPRESENT_INTERVAL_ONE"

\* A fullscreen surface asking for two blanks, on an adapter whose mask lacks
\* that interval, was given the single interval.
C22_Witness ==
    /\ Returned("_buildPresentParameters")
    /\ last.pre.mVSync /\ last.pre.mIsFullScreen /\ last.pre.mVSyncInterval = 2
    /\ last.pre.mDevice # NULL
    /\ "D3DPRESENT_INTERVAL_TWO" \notin last.args.caps
    /\ "D3DPRESENT_INTERVAL_ONE" \in last.args.caps
    /\ last.ret.PresentationInterval = "D3DPRESENT_INTERVAL_ONE"

\* C23: initialize_internal creating its window reads the rectangles of one
\* monitor and never fails: the monitor of the adapter mDesc.monitorIndex names
\* when that is 0 or 1, and otherwise (no index, or one past the last adapter) the
\* monitor MonitorFromPoint finds at (mDesc.left, mDesc.top), the primary one when
\* the point is on none.  A fullscreen window is created at that monitor's origin.
C23_MonitorChosen ==
    (last.op = "initialize_internal" /\ ~last.args.external)
        => LET chosen  == last.calls[CHOOSE k \in Called("GetMonitorInfo") : TRUE].hMonitor
               create  == last.calls[CHOOSE k \in Called("CreateWindowEx") : TRUE]
               atPoint == {m \in Monitors :
                            LET rc == GetMonitorInfo(m).rcMonitor
                            IN  /\ rc.left <= last.args.left /\ last.args.left < rc.right
                                /\ rc.top <= last.args.top /\ last.args.top < rc.bottom}
           IN  /\ last.outcome = "ok"
               /\ Cardinality(Called("GetMonitorInfo")) = 1
               /\ IF last.args.monitorIndex \in {0, 1}
                  THEN /\ chosen = <<"primary", "secondary">>[last.args.monitorIndex + 1]
                       /\ Called("MonitorFromPoint") = {}
                  ELSE /\ chosen \in (IF atPoint = {} THEN {"primary"} ELSE atPoint)
                       /\ \E k \in Called("MonitorFromPoint") :
                            /\ last.calls[k].x = last.args.left
                            /\ last.calls[k].y = last.args.top
                            /\ last.calls[k].dwFlags = "MONITOR_DEFAULTTOPRIMARY"
               /\ last.args.fullscreen
                    => /\ create.x = GetMonitorInfo(chosen).rcMonitor.left
                       /\ create.y = GetMonitorInfo(chosen).rcMonitor.top

\* A fullscreen surface asked for on an adapter past the last, anchored on the
\* secondary monitor, was created at the secondary monitor's origin.
C23_Witness ==
    /\ last.op = "initialize_internal" /\ last.outcome = "ok"
    /\ last.args.monitorIndex = 2 /\ last.args.left = 6 /\ last.args.top = 2
    /\ last.args.fullscreen
    /\ \E k \in Called("GetMonitorInfo") : last.calls[k].hMonitor = "secondary"
    /\ mLeft = 5 /\ mTop = 1

\* C24: the parameters _buildPresentParameters returns are those it builds over a
\* blank structure from the same surface, probe answers and adapter mask, whatever
\* the structure held when it was passed in, and the call changes no field of the
\* surface: geometry, mode, binding and validity flag are as before.
C24_BuiltFromScratch ==
    Returned("_buildPresentParameters")
        => /\ ChangedOnly({})
           /\ last.ret = PresentParameters(Blank, last.args.probe, last.args.caps)
           /\ last.ret.Flags = 0

\* A structure passed in with left-over contents came back without them, from a
\* bound surface.
C24_Witness ==
    /\ Returned("_buildPresentParameters")
    /\ last.args.prev = Stale /\ last.args.prev.Flags # 0
    /\ last.pre.mDevice # NULL /\ mDevice = last.pre.mDevice
    /\ last.ret.Flags = 0

\* C25: initialize_internal creating a windowed surface with no position given,
\* whose client size plus frame fits in the monitor's work area, ends with mWidth
\* and mHeight equal to the client size asked for: the window created is the
\* client size plus the frame, not cut down.
C25_ClientSizeAsRequested ==
    (/\ last.op = "initialize_internal"
     /\ ~last.args.external /\ ~last.args.fullscreen /\ ~last.args.outerDimensions
     /\ last.args.left = -1 /\ last.args.top = -1)
        => LET rcWork == GetMonitorInfo("primary").rcWork
               style  == WindowedStyle(last.args)
               create == last.calls[CHOOSE k \in Called("CreateWindowEx") : TRUE]
           IN  (/\ last.args.width + FrameWidth(style) <= rcWork.right - rcWork.left
                /\ last.args.height + FrameHeight(style) <= rcWork.bottom - rcWork.top)
                    => /\ mWidth = last.args.width /\ mHeight = last.args.height
                       /\ create.cx = last.args.width + FrameWidth(style)
                       /\ create.cy = last.args.height + FrameHeight(style)

\* C26: whenever setFullscreen has recorded a new mode, size or switching flag in
\* the surface, it has run to its end and invalidated the device bound to the
\* surface, once; a call made while no device is bound therefore leaves every
\* field of the surface as it was.
C26_RequestAllOrNothing ==
    (/\ last.op = "setFullscreen"
     /\ \/ mIsFullScreen # last.pre.mIsFullScreen
        \/ mSwitchingFullscreen # last.pre.mSwitchingFullscreen
        \/ mWidth # last.pre.mWidth \/ mHeight # last.pre.mHeight
        \/ mDesiredWidth # last.pre.mDesiredWidth
        \/ mDesiredHeight # last.pre.mDesiredHeight)
        => /\ last.outcome = "ok"
           /\ last.pre.mDevice # NULL
           /\ Cardinality(Called("invalidate")) = 1
           /\ \A i \in Called("invalidate") : last.calls[i].device = last.pre.mDevice

\* C27: the BackBufferWidth and BackBufferHeight _buildPresentParameters returns
\* are the surface's mWidth and mHeight, each replaced by 1 when it is 0, so both
\* are at least 1 in every state, the state a failed window query left with zero
\* width and height included.
C27_BackBufferAtLeastOne ==
    Returned("_buildPresentParameters")
        => /\ last.ret.BackBufferWidth =
                IF last.pre.mWidth = 0 THEN 1 ELSE last.pre.mWidth
           /\ last.ret.BackBufferHeight =
                IF last.pre.mHeight = 0 THEN 1 ELSE last.pre.mHeight
           /\ last.ret.BackBufferWidth >= 1 /\ last.ret.BackBufferHeight >= 1

\* A bound surface whose width and height are zero got a back buffer of 1 by 1.
C27_Witness ==
    /\ Returned("_buildPresentParameters")
    /\ last.pre.mDevice # NULL
    /\ last.pre.mWidth = 0 /\ last.pre.mHeight = 0
    /\ last.pre.mDesiredWidth > 0
    /\ last.ret.BackBufferWidth = 1 /\ last.ret.BackBufferHeight = 1

\* C28: _buildPresentParameters on a surface without vsync returns the immediate
\* interval in either mode and for every interval count, and does not read the
\* adapter's capabilities; with vsync on a windowed surface it returns the single
\* interval for every count; with vsync on a fullscreen surface whose count is
\* not 1, 2, 3 or 4 it returns the single interval.
C28_IntervalOutsideMapping ==
    Returned("_buildPresentParameters")
        => /\ ~last.pre.mVSync
                => /\ last.ret.PresentationInterval = "D3DPRESENT_INTERVAL_IMMEDIATE"
                   /\ Called("GetDeviceCaps") = {}
           /\ (last.pre.mVSync /\ ~last.pre.mIsFullScreen)
                => last.ret.PresentationInterval = "D3DPRESENT_INTERVAL_ONE"
           /\ (/\ last.pre.mVSync /\ last.pre.mIsFullScreen
               /\ last.pre.mVSyncInterval \notin 1..4)
                => last.ret.PresentationInterval = "D3DPRESENT_INTERVAL_ONE"

\* A windowed surface with vsync asking for three blanks got the single interval,
\* and a bound one.
C28_Witness ==
    /\ Returned("_buildPresentParameters")
    /\ last.pre.mDevice # NULL
    /\ last.pre.mVSync /\ ~last.pre.mIsFullScreen /\ last.pre.mVSyncInterval = 3
    /\ last.ret.PresentationInterval = "D3DPRESENT_INTERVAL_ONE"

\* C29: a setFullscreen that takes a windowed surface with a device to fullscreen
\* makes, in this order, the SetWindowPos call that places the window at a
\* monitor's origin with the size asked for, the SetWindowLong call that leaves
\* the style without caption or frame, the SetWindowPos call that moves and
\* sizes nothing and announces the changed frame, and then the invalidate call;
\* one that changes the size of a surface already fullscreen makes the first of
\* these and the invalidate call only.
C29_GeometryBeforeStyle ==
    (/\ Returned("setFullscreen") /\ last.args.fullScreen /\ AskedForChange
     /\ last.pre.mDevice # NULL)
        => LET place    == last.calls[1]
               n        == Len(last.calls)
           IN  /\ n = IF last.pre.mIsFullScreen THEN 2 ELSE 4
               /\ place.f = "SetWindowPos"
               /\ \E m \in Monitors :
                    /\ place.x = GetMonitorInfo(m).rcMonitor.left
                    /\ place.y = GetMonitorInfo(m).rcMonitor.top
               /\ place.cx = last.args.width /\ place.cy = last.args.height
               /\ place.flags \cap {"SWP_NOMOVE", "SWP_NOSIZE"} = {}
               /\ last.calls[n].f = "invalidate"
               /\ IF last.pre.mIsFullScreen
                  THEN Called("SetWindowLong") = {} /\ Called("SetWindowPos") = {1}
                  ELSE /\ last.calls[2].f = "SetWindowLong"
                       /\ "WS_POPUP" \in last.calls[2].style
                       /\ last.calls[2].style \cap {"WS_CAPTION", "WS_THICKFRAME"} = {}
                       /\ last.calls[3].f = "SetWindowPos"
                       /\ {"SWP_NOMOVE", "SWP_NOSIZE", "SWP_FRAMECHANGED"}
                            \subseteq last.calls[3].flags

\* A windowed surface with a caption and a device was taken to fullscreen on the
\* secondary monitor.
C29_Witness ==
    /\ Returned("setFullscreen") /\ last.args.fullScreen
    /\ ~last.pre.mIsFullScreen /\ last.pre.mDevice # NULL
    /\ "WS_CAPTION" \in last.pre.mStyle
    /\ Len(last.calls) = 4 /\ last.calls[1].x = 5 /\ last.calls[1].y = 1
    /\ mIsFullScreen /\ mSwitchingFullscreen

\* C30: _finishSwitchingFullscreen on a windowed surface places the window, by
\* one SetWindowPos call, centred in the work area of the monitor the window is
\* on, wherever that work area begins: at the work area's origin plus half the
\* room left over, and at the origin itself when the window is as large as the
\* work area or larger, so never left of or above the work area.
C30_RecentredOnOwnMonitor ==
    (Returned("_finishSwitchingFullscreen") /\ ~last.pre.mIsFullScreen)
        => LET rcWork  == GetMonitorInfo(last.args.hMonitor).rcWork
               place   == last.calls[1]
               screenw == rcWork.right - rcWork.left
               screenh == rcWork.bottom - rcWork.top
           IN  /\ place.f = "SetWindowPos"
               /\ place.x = rcWork.left
                    + (IF screenw > place.cx THEN (screenw - place.cx) \div 2 ELSE 0)
               /\ place.y = rcWork.top
                    + (IF screenh > place.cy THEN (screenh - place.cy) \div 2 ELSE 0)
               /\ place.x >= rcWork.left /\ place.y >= rcWork.top

\* C31: initialize_internal creating a windowed surface with a left or top given
\* adds the work-area origin of the monitor chosen to a given coordinate exactly
\* when the monitor was chosen by mDesc.monitorIndex naming an adapter; when the
\* monitor was chosen by the anchor point the coordinate is used as given; and a
\* coordinate not given is centred in the work area.  (A position left of or
\* above the work area is then moved to its edge.)
C31_TranslatedIffAdapterChosen ==
    (/\ last.op = "initialize_internal"
     /\ ~last.args.external /\ ~last.args.fullscreen
     /\ (last.args.left # -1 \/ last.args.top # -1))
        => LET byIndex == last.args.monitorIndex \in {0, 1}
               chosen  == last.calls[CHOOSE k \in Called("GetMonitorInfo") : TRUE].hMonitor
               rcWork  == GetMonitorInfo(chosen).rcWork
               create  == last.calls[CHOOSE k \in Called("CreateWindowEx") : TRUE]
               screenw == rcWork.right - rcWork.left
               screenh == rcWork.bottom - rcWork.top
               left    == IF last.args.left = -1
                          THEN rcWork.left
                               + (screenw - Min(last.args.width, screenw)) \div 2
                          ELSE IF byIndex THEN last.args.left + rcWork.left
                          ELSE last.args.left
               top     == IF last.args.top = -1
                          THEN rcWork.top
                               + (screenh - Min(last.args.height, screenh)) \div 2
                          ELSE IF byIndex THEN last.args.top + rcWork.top
                          ELSE last.args.top
           IN  /\ create.x = IF left < rcWork.left THEN rcWork.left ELSE left
               /\ create.y = IF top < rcWork.top THEN rcWork.top ELSE top

\* C32: every gesture started by startMove or startResize, in any of the eight
\* directions, gets exactly one simulated left-button-up event, and gets it after
\* SendMessage, which runs the window system's modal loop, has returned: while
\* a gesture is in the loop the input system has one event for each earlier
\* gesture and none for this one, and when no gesture is in the loop it has one
\* for each gesture started.  startResize sends the hit-test code of its
\* direction and startMove that of the caption.
C32_ReleaseAfterModalLoop ==
    /\ buttonUps = IF gesture = NoGesture THEN gestures ELSE gestures - 1
    /\ last.op \in {"startMove", "startResize"}
        => /\ Len(last.calls) = 2
           /\ last.calls[1].f = "SendMessage"
           /\ last.calls[1].Msg = "WM_NCLBUTTONDOWN"
           /\ last.calls[2] = [f |-> "simulateButtonUp", button |-> "BC_MOUSE_LEFT"]
           /\ last.calls[1].wParam \in
                IF last.op = "startMove" THEN {"HTCAPTION"}
                ELSE {"HTLEFT", "HTTOPLEFT", "HTTOP", "HTTOPRIGHT", "HTRIGHT",
                      "HTBOTTOMRIGHT", "HTBOTTOM", "HTBOTTOMLEFT"}

\* A second gesture, a resize by the bottom right corner, has ended and been
\* given its release, the window having been resized during it.
C32_Witness ==
    /\ last.op = "startResize" /\ last.outcome = "ok"
    /\ last.calls[1].wParam = "HTBOTTOMRIGHT"
    /\ gestures = 2 /\ buttonUps = 2 /\ gesture = NoGesture
    /\ mWidth # mDesiredWidth

\* C33: a constructed surface has no device and a false validity flag, and the
\* flag goes from false to true only in _validateDevice, and on a surface with a
\* device bound only when that device, asked once, answers true; no other
\* operation makes it true.  After _setDevice it is false, and swapBuffers
\* presents only on a surface whose flag was true.
C33_ValidOnlyByValidate ==
    /\ pc = "constructed" => (~mDeviceValid /\ mDevice = NULL)
    /\ (last.op # "-" /\ mDeviceValid /\ ~last.pre.mDeviceValid)
        => /\ last.op = "_validateDevice"
           /\ last.pre.mDevice # NULL
                => /\ last.args.answer /\ last.ret = TRUE
                   /\ last.calls = <<DeviceCall("validate", last.pre.mDevice)>>
    /\ last.op = "_setDevice" => ~mDeviceValid
    /\ (last.op = "swapBuffers" /\ Called("present") # {}) => last.pre.mDeviceValid

\* A bound surface whose flag was false was validated and its device confirmed
\* it.
C33_Witness ==
    /\ last.op = "_validateDevice" /\ last.outcome = "ok"
    /\ last.pre.mDevice # NULL /\ ~last.pre.mDeviceValid
    /\ last.args.answer /\ mDeviceValid
    /\ mDevice = last.pre.mDevice

\* C34: a true validity flag means a device is bound, in the constructed surface
\* and after every operation that found it so, teardown of a valid surface
\* included.  (_validateDevice through a NULL mDevice is undefined and is not
\* counted.)
C34_ValidImpliesBound ==
    /\ pc = "constructed" => (mDeviceValid => mDevice # NULL)
    /\ (/\ last.op # "-"
        /\ ~(last.op = "_validateDevice" /\ last.pre.mDevice = NULL)
        /\ last.pre.mDeviceValid => last.pre.mDevice # NULL)
        => (mDeviceValid => mDevice # NULL)

\* C35: move(top, left) on a windowed surface with a window records left and top
\* and places the window there, at x = left and y = top, for every pair, those
\* with top other than left included; on a fullscreen surface it changes no field
\* and makes no call.
C35_MovedWhereRecorded ==
    Returned("move")
        => IF last.pre.mHWnd # NoWindow /\ ~last.pre.mIsFullScreen
           THEN /\ mLeft = last.args.left /\ mTop = last.args.top
                /\ Len(last.calls) = 1 /\ last.calls[1].f = "SetWindowPos"
                /\ last.calls[1].x = mLeft /\ last.calls[1].y = mTop
           ELSE ChangedOnly({}) /\ last.calls = <<>>

\* C36: _buildPresentParameters on a surface with no device bound returns its
\* parameters and makes no call through the missing device: neither its type nor
\* its adapter number nor its device object is read.
C36_BuildsWithoutDevice ==
    (last.op = "_buildPresentParameters" /\ last.pre.mDevice = NULL)
        => /\ last.outcome = "ok"
           /\ last.ret.Windowed = ~last.pre.mIsFullScreen
           /\ Called("getDeviceType") = {}
           /\ Called("getD3D9Device") = {}
           /\ pc = last.pre.pc

\* C37: a surface created windowed with style S and client size (w, h) that has
\* gone through setFullscreen(true, ..), _finishSwitchingFullscreen,
\* setFullscreen(false, w, h), _finishSwitchingFullscreen is windowed, its
\* current and desired size are (w, h), it is not switching, and its style and
\* the window's style are S, for S without border, fixed and resizable.
C37_RoundTripRestoresStyle ==
    trip.stage = "left"
        => /\ ~mIsFullScreen /\ ~mSwitchingFullscreen
           /\ mWidth = trip.width /\ mHeight = trip.height
           /\ mDesiredWidth = trip.width /\ mDesiredHeight = trip.height
           /\ mStyle = trip.style
           /\ winStyle = trip.style

\* C38: a _finishSwitchingFullscreen on a windowed surface whose size was set by
\* resize, with no setFullscreen since, leaves the width and height resize gave
\* it: the one called between setFullscreen(false, ..) and its
\* _finishSwitchingFullscreen as well.
C38_ResizeSurvivesFinish ==
    (/\ Returned("_finishSwitchingFullscreen")
     /\ ~last.pre.mIsFullScreen /\ trip.resized)
        => mWidth = last.pre.mWidth /\ mHeight = last.pre.mHeight

====
